---------------------------- MODULE Spec2Model ----------------------------
(***************************************************************************)
(* PlushPal: a voice client of a realtime speech endpoint.                 *)
(*                                                                         *)
(* Two programs of the repository are modelled over the same module-level  *)
(* variables (both declare peerConnection and dataChannel):                *)
(*   - the headless CLI client, src/app.js            (specification Spec) *)
(*   - the browser client, src/src/main.js     (specification SpecBrowser) *)
(* The node event loop runs one callback to completion at a time, so each  *)
(* action below is one callback (or one promise continuation) taken whole. *)
(***************************************************************************)
EXTENDS Integers, Sequences, FiniteSets

\* Bounds of the model (not program constants).
MaxInputs == 4      \* Enter presses / clicks / direct calls in one run
MaxInbound == 2     \* inbound data-channel messages in one run
MaxClock == 1       \* milliseconds that pass between reads of the clock

VARIABLES
  variant,            \* which program runs: "app.js", "v0.2.0" or "main.js"
  pc,                 \* position of main()/initWebRTC() or init() (browser)
  exitCode,           \* argument of process.exit, -1 while the process runs
  keyRequests,        \* credential requests issued
  ephemeralKey,       \* value getEphemeralKey resolved with ("none" before)
  keyResponse,        \* what the credential endpoint answered
  lastError,          \* the Error getEphemeralKey rejected with
  created,            \* RTCPeerConnection objects constructed so far
  peerConnection,     \* app.js:43  0 is null, else the connection's id
  closedConns,        \* connections on which close() was called
  connectionState,    \* peerConnection.connectionState
  dataChannel,        \* app.js:44  0 is null, else the id of its connection
  readyState,         \* dataChannel.readyState
  iceConnectionState, \* peerConnection.iceConnectionState
  localDescription,   \* setLocalDescription(offer) has completed
  offers,             \* createOffer calls that produced an offer
  signalingRequests,  \* POSTs of the offer to the signaling endpoint
  responseOk,         \* the signaling response had response.ok
  answersApplied,     \* setRemoteDescription(answer) calls
  recording,          \* app.js:45  0 is null, else the recorder's id
  started,            \* record.record() calls so far (the next recorder id - 1)
  running,            \* recorders started and not stopped
  testRunning,        \* v0.2.0: 5-second test recorders started and not stopped
  conversationActive, \* app.js:46
  sent,               \* directives sent on the data channel, in order
  inputs,             \* user inputs so far (bounded by MaxInputs)
  inbound,            \* inbound messages so far (bounded by MaxInbound)
  played,             \* audio chunks handed to the player
  inbox,              \* ids of the messages sent and not yet delivered
  handled,            \* the messages handled, with their outcome, in order
  clock,              \* the value Date.now() returned last
  files,              \* names of the chunk files in the temp directory
  playing,            \* playbacks handed to the player and not finished
  event,              \* the callback the event loop ran last
  out,                \* what that callback wrote to the console / status line
  startBtnDisabled,   \* browser: startBtn.disabled
  stopBtnDisabled,    \* browser: stopBtn.disabled
  micStream           \* browser: getUserMedia stream is live

vars == <<variant, pc, exitCode, keyRequests, ephemeralKey, keyResponse,
          lastError, created, peerConnection, closedConns, connectionState,
          dataChannel, readyState, iceConnectionState, inbox, handled,
          clock, files, playing,
          localDescription, offers, signalingRequests, responseOk,
          answersApplied, recording, started, running, testRunning,
          conversationActive,
          sent, inputs, inbound, played, event, out,
          startBtnDisabled, stopBtnDisabled, micStream>>

\* Groups used in UNCHANGED clauses.
negotiationVars == <<keyRequests, ephemeralKey, created, peerConnection,
                     dataChannel, localDescription, offers, signalingRequests,
                     responseOk, answersApplied>>
transportVars == <<closedConns, connectionState, readyState,
                   iceConnectionState>>
audioVars == <<inbound, played, inbox, handled, clock, files, playing>>
\* Written by at most one callback of the program.
staticVars == <<variant, keyResponse, lastError>>
captureVars == <<recording, started, running, testRunning>>
browserVars == <<staticVars, startBtnDisabled, stopBtnDisabled, micStream>>

-----------------------------------------------------------------------------
(* State after the module has been loaded and before main() runs.          *)

NoResponse == [status |-> 0, kind |-> "none", chunks |-> <<>>]
NoError == [message |-> "none", status |-> 0, body |-> <<>>]

InitShared ==
  /\ pc = "start"
  /\ keyResponse = NoResponse
  /\ lastError = NoError
  /\ iceConnectionState = "none"
  /\ inbox = <<>>
  /\ handled = <<>>
  /\ clock = 0
  /\ files = {}
  /\ playing = {}
  /\ exitCode = -1
  /\ keyRequests = 0
  /\ ephemeralKey = "none"
  /\ created = 0
  /\ peerConnection = 0
  /\ closedConns = {}
  /\ connectionState = "none"
  /\ dataChannel = 0
  /\ readyState = "none"
  /\ localDescription = FALSE
  /\ offers = 0
  /\ signalingRequests = 0
  /\ responseOk = FALSE
  /\ answersApplied = 0
  /\ recording = 0
  /\ started = 0
  /\ running = {}
  /\ testRunning = {}
  /\ conversationActive = FALSE
  /\ sent = <<>>
  /\ inputs = 0
  /\ inbound = 0
  /\ played = 0
  /\ event = "load"
  /\ out = <<>>
  /\ micStream = FALSE

\* The two variants of the CLI client: src/app.js, and the variant that
\* announces itself as "v0.2.0 - Enhanced mic debugging" (part_000:13),
\* which differs from app.js in startRecording and in its logging.
Variants == {"app.js", "v0.2.0"}

Init ==
  /\ InitShared
  /\ variant \in Variants
  /\ startBtnDisabled = FALSE
  /\ stopBtnDisabled = FALSE

-----------------------------------------------------------------------------
(* Console output, abbreviated to the message that identifies the line.    *)

LogKeyError == "Error:"
LogInitError == "WebRTC initialization error:"
LogInitFailed == "Failed to initialize WebRTC"
LogReady == "PlushPal is ready!"
LogStarted == "Started conversation"
LogStopped == "Stopped conversation"
LogNotReady == "Data channel not ready. Cannot start conversation."
LogRecStarted == "Recording started"
LogRecStopped == "Recording stopped"
LogCleanup == "Cleaning up..."

\* The process is alive: process.exit has not been called and no signal has
\* ended it.
Alive == pc # "exited"

-----------------------------------------------------------------------------
(* getEphemeralKey, app.js:49-98.                                          *)

Statuses == {200, 401}
Bodies == {"valid", "notJson", "noSecret", "noValue"}

\* What the promise of getEphemeralKey settles with for a response of the
\* given status and body: JSON.parse throws on a body that is not JSON,
\* parsedData.client_secret.value throws when client_secret is missing, and
\* evaluates to undefined when client_secret has no value field.
GetEphemeralKey(status, body) ==
  IF status = 200
  THEN CASE body = "valid" -> "ek"
         [] body = "noValue" -> "undefined"
         [] OTHER -> "reject"
  ELSE "reject"

\* The bodies of error responses, as bytes: "a" is a one-byte character, "L"
\* and "T" are the lead and trail byte of one two-byte character.
ErrorBodies == {<<"a", "a">>, <<"a", "L", "T">>}

\* A body as the 'data' events deliver it: cut anywhere into two chunks.
Chunkings(bytes) ==
  {<<SubSeq(bytes, 1, k), SubSeq(bytes, k + 1, Len(bytes))>> :
     k \in 0..Len(bytes)}

\* The responses the credential endpoint can give.  The text of a 200 body
\* is taken to be ASCII, so only its kind is kept.
KeyResponses ==
  {[status |-> 200, kind |-> b, chunks |-> <<>>] : b \in Bodies}
  \cup {[status |-> st, kind |-> "error", chunks |-> c] :
          st \in Statuses \ {200},
          c \in UNION {Chunkings(bytes) : bytes \in ErrorBodies}}

\* Buffer.toString(): the characters of a sequence of bytes read as UTF-8;
\* a lead byte without its trail byte, or a trail byte on its own, decodes
\* to the replacement character.
RECURSIVE Utf8Decode(_)
Utf8Decode(bytes) ==
  IF bytes = <<>> THEN <<>>
  ELSE IF bytes[1] = "a" THEN <<"a">> \o Utf8Decode(Tail(bytes))
  ELSE IF bytes[1] = "L" /\ Len(bytes) >= 2 /\ bytes[2] = "T"
       THEN <<"LT">> \o Utf8Decode(Tail(Tail(bytes)))
  ELSE <<"?">> \o Utf8Decode(Tail(bytes))

\* The bytes of a body, whatever chunks it arrived in.
RECURSIVE Flatten(_)
Flatten(chunks) ==
  IF chunks = <<>> THEN <<>> ELSE Head(chunks) \o Flatten(Tail(chunks))

\* responseData after all 'data' events (app.js:71-75): each chunk is a
\* Buffer and `responseData += chunk` converts it to a string on its own.
RECURSIVE ResponseData(_)
ResponseData(chunks) ==
  IF chunks = <<>> THEN <<>>
  ELSE Utf8Decode(Head(chunks)) \o ResponseData(Tail(chunks))

\* The Error getEphemeralKey rejects with (app.js:83, 86).
RejectionError(response) ==
  IF response.status = 200
  THEN [message |-> "Failed to parse response", status |-> 0, body |-> <<>>]
  ELSE [message |-> "Request failed with status code",
        status |-> response.status,
        body |-> ResponseData(response.chunks)]

\* main() starts and getEphemeralKey issues its one https request.
Main ==
  /\ pc = "start"
  /\ pc' = "awaitKey"
  /\ keyRequests' = keyRequests + 1
  /\ event' = "main"
  /\ out' = <<"Getting ephemeral key from OpenAI...">>
  /\ UNCHANGED <<exitCode, ephemeralKey, created, peerConnection, dataChannel,
                 localDescription, offers, signalingRequests, responseOk,
                 answersApplied, transportVars, captureVars,
                 conversationActive, sent, inputs, audioVars,
                 browserVars>>

\* The synchronous head of initWebRTC (app.js:101-159): the connection and
\* its data channel are created and createOffer is called.
InitWebRTCHead ==
  /\ created' = created + 1
  /\ peerConnection' = created + 1
  /\ connectionState' = "new"
  /\ dataChannel' = created + 1
  /\ readyState' = "connecting"
  /\ iceConnectionState' = "new"
  /\ pc' = "createOffer"

\* InitWebRTCFailed that starts main over instead of exiting.
InitWebRTCRetries ==
  /\ pc' = "start"
  /\ UNCHANGED exitCode
  /\ out' = <<LogInitError>>

\* The catch of initWebRTC returns false and main exits with code 1
\* (app.js:192-195, 332-335).
InitWebRTCFailed ==
  /\ pc' = "exited"
  /\ exitCode' = 1
  /\ out' = <<LogInitError, LogInitFailed>>

\* What main does once getEphemeralKey has settled: it continues after its
\* await (app.js:311-315) or lands in its catch (app.js:336-339).
KeySettled(result, error) ==
  /\ pc = "awaitKey"
  /\ IF result = "reject"
     THEN /\ pc' = "exited"
          /\ exitCode' = 1
          /\ lastError' = error
          /\ out' = <<LogKeyError>>
          /\ UNCHANGED <<ephemeralKey, created, peerConnection, dataChannel,
                         connectionState, readyState, iceConnectionState>>
     ELSE /\ ephemeralKey' = result
          /\ InitWebRTCHead
          /\ out' = <<"Got ephemeral key", "Initializing WebRTC connection...">>
          /\ UNCHANGED <<exitCode, lastError>>
  /\ UNCHANGED <<keyRequests, closedConns, localDescription, offers,
                 signalingRequests, responseOk, answersApplied, captureVars,
                 conversationActive, sent, inputs, audioVars, variant,
                 startBtnDisabled, stopBtnDisabled, micStream>>

\* The credential response has ended (res.on('end'), app.js:77-88).
KeyResponse(response) ==
  /\ event' = "keyResponse"
  /\ keyResponse' = response
  /\ KeySettled(GetEphemeralKey(response.status, response.kind),
                RejectionError(response))

\* The credential request failed (req.on('error'), app.js:91-93).
KeyRequestError ==
  /\ event' = "keyRequestError"
  /\ UNCHANGED keyResponse
  /\ KeySettled("reject", [message |-> "request error", status |-> 0,
                           body |-> <<>>])

KeyResponded ==
  \/ \E response \in KeyResponses : KeyResponse(response)
  \/ KeyRequestError

-----------------------------------------------------------------------------
(* initWebRTC after its first await, app.js:159-195.  Each action is the   *)
(* continuation that runs when the awaited promise settles; ok = FALSE is  *)
(* the promise rejecting, which lands in the catch at app.js:192.          *)

Outcomes == BOOLEAN

\* What each step leaves alone besides the variables it names.
NegotiationFrame ==
  UNCHANGED <<keyRequests, ephemeralKey, created, peerConnection, dataChannel,
              transportVars, captureVars, conversationActive, sent, inputs,
              audioVars, browserVars>>

\* await peerConnection.createOffer(...) settles (app.js:159-163).
CreateOfferDone(ok) ==
  /\ pc = "createOffer"
  /\ event' = "createOffer"
  /\ IF ok
     THEN /\ offers' = offers + 1
          /\ pc' = "setLocal"
          /\ out' = <<>>
          /\ UNCHANGED exitCode
     ELSE /\ InitWebRTCFailed
          /\ UNCHANGED offers
  /\ UNCHANGED <<localDescription, signalingRequests, responseOk,
                 answersApplied>>
  /\ NegotiationFrame

\* await peerConnection.setLocalDescription(offer) settles; on success the
\* offer is POSTed to the signaling endpoint (app.js:163-176).
SetLocalDescriptionDone(ok) ==
  /\ pc = "setLocal"
  /\ event' = "setLocalDescription"
  /\ IF ok
     THEN /\ localDescription' = TRUE
          /\ signalingRequests' = signalingRequests + 1
          /\ pc' = "fetch"
          /\ out' = <<>>
          /\ UNCHANGED exitCode
     ELSE /\ InitWebRTCFailed
          /\ UNCHANGED <<localDescription, signalingRequests>>
  /\ UNCHANGED <<offers, responseOk, answersApplied>>
  /\ NegotiationFrame

FetchResults == {"ok", "notOk", "reject"}

\* ResponseAccepted with the response.ok test forgotten.
ResponseNotChecked(result) == result # "reject"

\* The check of the signaling response (app.js:178-180): only a response
\* with response.ok goes on to response.text().
ResponseAccepted(result) == result = "ok"

\* await fetch(...) settles (app.js:169-182).
FetchDone(result) ==
  /\ pc = "fetch"
  /\ event' = "fetch"
  /\ IF ResponseAccepted(result)
     THEN /\ responseOk' = (result = "ok")
          /\ pc' = "text"
          /\ out' = <<>>
          /\ UNCHANGED exitCode
     ELSE /\ InitWebRTCFailed
          /\ UNCHANGED responseOk
  /\ UNCHANGED <<localDescription, offers, signalingRequests, answersApplied>>
  /\ NegotiationFrame

\* await response.text() settles; on success setRemoteDescription(answer) is
\* called (app.js:182-188).
TextDone(ok) ==
  /\ pc = "text"
  /\ event' = "text"
  /\ IF ok
     THEN /\ answersApplied' = answersApplied + 1
          /\ pc' = "setRemote"
          /\ out' = <<>>
          /\ UNCHANGED exitCode
     ELSE /\ InitWebRTCFailed
          /\ UNCHANGED answersApplied
  /\ UNCHANGED <<localDescription, offers, signalingRequests, responseOk>>
  /\ NegotiationFrame

\* await peerConnection.setRemoteDescription(answer) settles; on success
\* initWebRTC returns true and main registers the line and signal handlers
\* (app.js:188-191, 317-331).
SetRemoteDescriptionDone(ok) ==
  /\ pc = "setRemote"
  /\ event' = "setRemoteDescription"
  /\ IF ok
     THEN /\ pc' = "ready"
          /\ out' = <<"Connected to OpenAI Realtime API", LogReady>>
          /\ UNCHANGED exitCode
     ELSE InitWebRTCFailed
  /\ UNCHANGED <<localDescription, offers, signalingRequests, responseOk,
                 answersApplied>>
  /\ NegotiationFrame

-----------------------------------------------------------------------------
(* Capture and the conversation operations of the CLI, app.js:198-264.     *)

Directive(type) == [type |-> type, conn |-> dataChannel]

\* ChannelOpen with the readyState test forgotten.
ChannelExists == dataChannel # 0

\* dataChannel && dataChannel.readyState === 'open' (app.js:238, 258).
ChannelOpen == dataChannel # 0 /\ readyState = "open"

\* startRecording, app.js:199-225: a new recorder is started and its handle
\* is stored in recording, whatever recording held before.  The v0.2.0
\* variant (part_000:197-274) starts a second, test recorder beside it and
\* sets a 5-second timer to stop that one.  record.record() spawns the
\* recorder process and reports a failure to do so on the stream, later; it
\* is taken not to throw.
StartRecording ==
  /\ started' = started + 1
  /\ recording' = started + 1
  /\ running' = running \cup {started + 1}
  /\ testRunning' = IF variant = "v0.2.0"
                    THEN testRunning \cup {started + 1}
                    ELSE testRunning

\* StopRecording with `recording = null` forgotten.
StopRecordingKeepsHandle ==
  IF recording # 0
  THEN /\ running' = running \ {recording}
       /\ UNCHANGED <<recording, started, testRunning>>
  ELSE UNCHANGED captureVars

\* stopRecording, app.js:228-234.
StopRecording ==
  IF recording # 0
  THEN /\ running' = running \ {recording}
       /\ recording' = 0
       /\ UNCHANGED <<started, testRunning>>
  ELSE UNCHANGED captureVars

\* startConversation, app.js:237-254.
StartConversation ==
  IF ChannelOpen
  THEN /\ sent' = Append(sent, Directive("response.create"))
       /\ StartRecording
       /\ conversationActive' = TRUE
       /\ out' = <<LogStarted, LogRecStarted>>
       /\ UNCHANGED transportVars
  ELSE /\ out' = <<LogNotReady>>
       /\ UNCHANGED <<sent, captureVars, conversationActive, transportVars>>

\* StopConversation that also closes the peer connection.
StopConversationReleases ==
  IF ChannelOpen
  THEN /\ sent' = Append(sent, Directive("response.stop"))
       /\ StopRecording
       /\ conversationActive' = FALSE
       /\ out' = <<LogStopped>>
       /\ closedConns' = closedConns \cup {peerConnection}
       /\ connectionState' = "closed"
       /\ readyState' = "closed"
       /\ iceConnectionState' = "closed"
  ELSE /\ out' = <<>>
       /\ UNCHANGED <<sent, captureVars, conversationActive, transportVars>>

\* stopConversation, app.js:257-264.
StopConversation ==
  IF ChannelOpen
  THEN /\ sent' = Append(sent, Directive("response.stop"))
       /\ StopRecording
       /\ conversationActive' = FALSE
       /\ out' = IF recording # 0 THEN <<LogStopped, LogRecStopped>>
                                  ELSE <<LogStopped>>
       /\ UNCHANGED transportVars
  ELSE /\ out' = <<>>
       /\ UNCHANGED <<sent, captureVars, conversationActive, transportVars>>

ConversationFrame ==
  UNCHANGED <<pc, exitCode, negotiationVars, audioVars, browserVars>>

\* LineHandler without the test of conversationActive: Enter always starts.
LineHandlerAlwaysStarts == StartConversation

\* The 'line' listener registered by main, app.js:321-327: Enter toggles.
LineHandler ==
  IF ~conversationActive THEN StartConversation ELSE StopConversation

\* Enter is pressed once main has registered its listener.
OnLine ==
  /\ pc = "ready"
  /\ inputs < MaxInputs
  /\ inputs' = inputs + 1
  /\ event' = "line"
  /\ LineHandler
  /\ ConversationFrame

\* Enter is pressed before rl.on('line') has run (app.js:19-22 creates the
\* interface at load, app.js:321 registers the listener only after
\* initWebRTC succeeded): the 'line' event has no listener and is dropped.
LineDropped ==
  /\ pc \notin {"ready", "exited"}
  /\ inputs < MaxInputs
  /\ inputs' = inputs + 1
  /\ event' = "line"
  /\ out' = <<>>
  /\ UNCHANGED <<sent, captureVars, conversationActive, transportVars>>
  /\ ConversationFrame

\* startConversation() and stopConversation() called directly, in whatever
\* state the conversation is (the operations begin() and end() of the
\* controller, without the dispatch of the line listener).
CallStartConversation ==
  /\ pc = "ready"
  /\ inputs < MaxInputs
  /\ inputs' = inputs + 1
  /\ event' = "startConversation"
  /\ StartConversation
  /\ ConversationFrame

CallStopConversation ==
  /\ pc = "ready"
  /\ inputs < MaxInputs
  /\ inputs' = inputs + 1
  /\ event' = "stopConversation"
  /\ StopConversation
  /\ ConversationFrame

-----------------------------------------------------------------------------
(* Shutdown, app.js:294-302 and 330-331.                                   *)

Signals == {"SIGINT", "SIGTERM"}

\* cleanup, app.js:294-302.
Cleanup ==
  /\ StopRecording
  /\ IF peerConnection # 0
     THEN /\ closedConns' = closedConns \cup {peerConnection}
          /\ connectionState' = "closed"
          /\ readyState' = "closed"
          /\ iceConnectionState' = "closed"
     ELSE UNCHANGED transportVars
  /\ pc' = "exited"
  /\ exitCode' = 0
  /\ out' = IF recording # 0 THEN <<LogCleanup, LogRecStopped>>
                             ELSE <<LogCleanup>>

\* A signal arrives after main registered cleanup for it (app.js:330-331).
OnSignal(sig) ==
  /\ pc = "ready"
  /\ event' = sig
  /\ Cleanup
  /\ UNCHANGED <<negotiationVars, conversationActive, sent, inputs,
                 audioVars, browserVars>>

\* A signal arrives before process.on(sig, cleanup) has run: the default
\* disposition ends the process and no code of the program runs.
SignalDefault(sig) ==
  /\ pc \notin {"ready", "exited"}
  /\ event' = sig
  /\ pc' = "exited"
  /\ exitCode' = IF sig = "SIGINT" THEN 130 ELSE 143
  /\ out' = <<>>
  /\ UNCHANGED <<negotiationVars, transportVars, captureVars,
                 conversationActive, sent, inputs, audioVars,
                 browserVars>>

-----------------------------------------------------------------------------
(* The transport, as the program observes it.                              *)

\* The transitions of RTCPeerConnection.connectionState that the remote side
\* and the network cause once both descriptions are set; "closed" is
\* reached by close() alone.
ConnectionTransitions ==
  { <<"new", "connecting">>, <<"connecting", "connected">>,
    <<"connecting", "failed">>, <<"connected", "disconnected">>,
    <<"disconnected", "connected">>, <<"disconnected", "failed">> }

\* The same for RTCPeerConnection.iceConnectionState.
IceTransitions ==
  { <<"new", "checking">>, <<"checking", "connected">>,
    <<"checking", "failed">>, <<"connected", "disconnected">>,
    <<"disconnected", "connected">>, <<"disconnected", "failed">> }

\* The connectionState that goes with a state of the ICE agent.  The agent
\* changes state first and fires its event, then connectionState follows and
\* fires its own.
Aggregate(ice) == IF ice = "checking" THEN "connecting" ELSE ice

EventFrame ==
  UNCHANGED <<pc, exitCode, negotiationVars, closedConns, captureVars,
              conversationActive, sent, inputs, browserVars>>

\* LogState that also sets up a new connection once the state is "failed".
LogStateAndReconnect(label, state) ==
  /\ out' = <<label>>
  /\ IF state = "failed"
     THEN /\ created' = created + 1
          /\ peerConnection' = created + 1
          /\ dataChannel' = created + 1
          /\ UNCHANGED <<keyRequests, ephemeralKey, localDescription, offers,
                         signalingRequests, responseOk, answersApplied>>
     ELSE UNCHANGED negotiationVars
  /\ UNCHANGED <<captureVars, conversationActive>>

\* What the two state listeners do, app.js:109-111 and 113-115: they log the
\* state they are given.
LogState(label, state) ==
  /\ out' = <<label>>
  /\ UNCHANGED <<negotiationVars, captureVars, conversationActive>>

StateChangeFrame ==
  UNCHANGED <<pc, exitCode, closedConns, readyState, sent, inputs, audioVars,
              browserVars>>

\* peerConnection.onconnectionstatechange, app.js:109-111.
OnConnectionStateChange(to) ==
  /\ pc = "ready"
  /\ <<connectionState, to>> \in ConnectionTransitions
  /\ to = Aggregate(iceConnectionState)
  /\ connectionState' = to
  /\ event' = "connectionstatechange"
  /\ LogState("Connection state:", to)
  /\ UNCHANGED iceConnectionState
  /\ StateChangeFrame

\* peerConnection.oniceconnectionstatechange, app.js:113-115.
OnIceConnectionStateChange(to) ==
  /\ pc = "ready"
  /\ connectionState = Aggregate(iceConnectionState)
  /\ <<iceConnectionState, to>> \in IceTransitions
  /\ iceConnectionState' = to
  /\ event' = "iceconnectionstatechange"
  /\ LogState("ICE connection state:", to)
  /\ UNCHANGED connectionState
  /\ StateChangeFrame

\* The data channel opens once the connection is up.  The program registers
\* no 'open' listener (app.js:147-156 registers 'message' only), so only
\* readyState changes.
DataChannelOpens ==
  /\ pc = "ready"
  /\ dataChannel # 0
  /\ readyState = "connecting"
  /\ connectionState = "connected"
  /\ readyState' = "open"
  /\ event' = "datachannel"
  /\ out' = <<>>
  /\ UNCHANGED <<connectionState, iceConnectionState, audioVars>>
  /\ EventFrame

\* The data channel closes: the remote side closes it, or the connection
\* has failed.  No 'close' listener is registered either.  Messages still on
\* their way are lost with the channel.
DataChannelCloses ==
  /\ pc = "ready"
  /\ dataChannel # 0
  /\ \/ readyState = "open"
     \/ readyState = "connecting" /\ connectionState = "failed"
  /\ readyState' = "closed"
  /\ inbox' = <<>>
  /\ event' = "datachannel"
  /\ out' = <<>>
  /\ UNCHANGED <<connectionState, iceConnectionState, inbound, played,
                 handled, clock, files, playing>>
  /\ EventFrame

-----------------------------------------------------------------------------
(* Inbound messages and the rendering of audio chunks.                     *)

\* The remote side sends one more message on the open channel.  Messages are
\* numbered in the order they are sent.
RemoteSends ==
  /\ pc = "ready"
  /\ ChannelOpen
  /\ inbound < MaxInbound
  /\ inbound' = inbound + 1
  /\ inbox' = Append(inbox, inbound + 1)
  /\ event' = "remote.send"
  /\ out' = <<>>
  /\ UNCHANGED <<connectionState, readyState, iceConnectionState, played,
                 handled, clock, files, playing>>
  /\ EventFrame

\* Deliverable for a channel created with ordered: false.
DeliverableUnordered(box) == DOMAIN box

\* The positions of the messages in flight that the channel may deliver next.
\* createDataChannel('oai-events') is given no options (app.js:147), so the
\* channel is ordered and reliable: the oldest message only.
Deliverable(box) == IF box = <<>> THEN {} ELSE {1}

\* A sequence without its i-th element.
Remove(box, i) == SubSeq(box, 1, i - 1) \o SubSeq(box, i + 1, Len(box))

MessageTypes == {"audio.chunk", "session.created"}

\* In place of a type: the data of the message is not JSON text.
NotJson == "not JSON"

\* event.audio of a message: "valid" has data that is base64 text, "bad" has
\* data that Buffer.from rejects (a number), "none" has no audio or no data.
AudioData == {"valid", "bad", "none"}

\* Rendering that lets an exception leave handleAudioChunk.
RenderingUncaught(audio, wrote) ==
  IF audio = "none" THEN "empty"
  ELSE IF audio = "bad" \/ ~wrote THEN "thrown"
  ELSE "played"

\* How handleAudioChunk ends for a chunk (app.js:268-290): without doing
\* anything, in its catch, or with the chunk handed to the player.
Rendering(audio, wrote) ==
  IF audio = "none" THEN "empty"
  ELSE IF audio = "bad" \/ ~wrote THEN "failed"
  ELSE "played"

\* Dispatch that hands every message that has audio to handleAudioChunk.
DispatchAll(type, audio, wrote) ==
  IF type = NotJson THEN "thrown" ELSE Rendering(audio, wrote)

\* What the 'message' listener does with a message (app.js:149-155): every
\* message is logged, and only an audio.chunk goes to handleAudioChunk.
\* JSON.parse throws on data that is not JSON, before anything is logged.
Dispatch(type, audio, wrote) ==
  IF type = NotJson THEN "thrown"
  ELSE IF type = "audio.chunk" THEN Rendering(audio, wrote)
  ELSE "logged"

\* handleAudioChunk, app.js:267-291.  `now` is what Date.now() returns and
\* `wrote` whether writeFileSync succeeded (a failed write is taken to leave
\* no file).  The file is named after `now` and the player is started on it;
\* the call returns while the player runs.
HandleAudioChunk(id, outcome, now) ==
  IF outcome = "played"
  THEN /\ clock' = now
       /\ files' = files \cup {now}
       /\ playing' = playing \cup {[chunk |-> id, file |-> now]}
       /\ played' = played + 1
  ELSE UNCHANGED <<clock, files, playing, played>>

\* What the listener has logged when it ends with `outcome`.
LogOf(outcome) ==
  IF outcome = "thrown" THEN <<>>
  ELSE <<"Received event:">>
       \o (IF outcome = "played" THEN <<"Playing audio chunk...">>
           ELSE IF outcome = "failed" THEN <<"Error handling audio chunk:">>
           ELSE <<>>)

\* The 'message' listener of the data channel, app.js:148-156, run for the
\* message the channel delivers.  An exception that leaves the listener is
\* uncaught and ends the process.
OnMessage(type, audio, now, wrote) ==
  /\ pc = "ready"
  /\ \E i \in Deliverable(inbox) :
       LET id == inbox[i]
           outcome == Dispatch(type, audio, wrote)
       IN /\ inbox' = Remove(inbox, i)
          /\ handled' = Append(handled, [id |-> id, outcome |-> outcome])
          /\ HandleAudioChunk(id, outcome, now)
          /\ out' = LogOf(outcome)
          /\ IF outcome = "thrown"
             THEN pc' = "exited" /\ exitCode' = 1
             ELSE UNCHANGED <<pc, exitCode>>
  /\ event' = "message"
  /\ UNCHANGED <<negotiationVars, transportVars, captureVars,
                 conversationActive, sent, inputs, inbound, browserVars>>

\* The times Date.now() can return after it returned `last`: the same
\* millisecond or a later one.
Times(last) == {t \in {last, last + 1} : t <= MaxClock}

\* The callback given to soundPlayer.play, app.js:279-286, run when the
\* player has ended: with err the error is logged; without, the chunk's
\* file is removed, and unlinkSync throws if the file is not there, which
\* nothing catches.
PlaybackDone(p, err) ==
  /\ pc = "ready"
  /\ p \in playing
  /\ playing' = playing \ {p}
  /\ event' = "playback"
  /\ IF err
     THEN /\ out' = <<"Error playing audio chunk:">>
          /\ UNCHANGED <<files, pc, exitCode>>
     ELSE IF p.file \in files
     THEN /\ files' = files \ {p.file}
          /\ out' = <<>>
          /\ UNCHANGED <<pc, exitCode>>
     ELSE /\ pc' = "exited"
          /\ exitCode' = 1
          /\ out' = <<>>
          /\ UNCHANGED files
  /\ UNCHANGED <<negotiationVars, transportVars, captureVars,
                 conversationActive, sent, inputs, inbound, played, inbox,
                 handled, clock, browserVars>>

-----------------------------------------------------------------------------
(* The recorder stream.                                                    *)

\* The 'data' listener of the recorder stream, app.js:211-219.
OnRecorderData ==
  /\ pc = "ready"
  /\ running # {}
  /\ event' = "recorder.data"
  /\ out' = (IF variant = "v0.2.0" THEN <<"Received audio chunk:">> ELSE <<>>)
            \o (IF peerConnection # 0 /\ connectionState = "connected"
                THEN <<"Audio data captured">> ELSE <<>>)
  /\ UNCHANGED <<connectionState, readyState, iceConnectionState, audioVars>>
  /\ EventFrame

\* The 'error' listener of the recorder stream, app.js:220-222.
OnRecorderError ==
  /\ pc = "ready"
  /\ running # {}
  /\ event' = "recorder.error"
  /\ out' = <<"Recording error:">>
  /\ UNCHANGED <<connectionState, readyState, iceConnectionState, audioVars>>
  /\ EventFrame

\* The first element of a non-empty set of recorder ids.
Oldest(S) == CHOOSE x \in S : \A y \in S : x <= y

\* v0.2.0: the timer set by startRecording fires (part_000:257-270): the test
\* recorder it belongs to is stopped and its file is played back.  Timers of
\* equal delay fire in the order they were set.
OnTestTimeout ==
  /\ pc = "ready"
  /\ testRunning # {}
  /\ testRunning' = testRunning \ {Oldest(testRunning)}
  /\ event' = "timeout"
  /\ out' = <<"Test recording saved">>
  /\ UNCHANGED <<pc, exitCode, negotiationVars, transportVars, recording,
                 started, running, conversationActive, sent, inputs,
                 audioVars, browserVars>>

-----------------------------------------------------------------------------
(* The CLI client.                                                         *)

\* Every callback of the client but those of inbound messages.
NextLocal ==
  \/ Main
  \/ KeyResponded
  \/ \E ok \in Outcomes : CreateOfferDone(ok)
  \/ \E ok \in Outcomes : SetLocalDescriptionDone(ok)
  \/ \E result \in FetchResults : FetchDone(result)
  \/ \E ok \in Outcomes : TextDone(ok)
  \/ \E ok \in Outcomes : SetRemoteDescriptionDone(ok)
  \/ OnLine
  \/ LineDropped
  \/ \E sig \in Signals : OnSignal(sig)
  \/ \E sig \in Signals : SignalDefault(sig)
  \/ \E to \in {"connecting", "connected", "disconnected", "failed"} :
       OnConnectionStateChange(to)
  \/ \E to \in {"checking", "connected", "disconnected", "failed"} :
       OnIceConnectionStateChange(to)
  \/ DataChannelOpens
  \/ DataChannelCloses
  \/ OnRecorderData
  \/ OnRecorderError
  \/ OnTestTimeout

Next ==
  \/ NextLocal
  \/ RemoteSends
  \/ \E type \in MessageTypes \cup {NotJson}, audio \in AudioData,
        now \in Times(clock), wrote \in BOOLEAN :
       OnMessage(type, audio, now, wrote)
  \/ \E p \in playing, err \in BOOLEAN : PlaybackDone(p, err)

Spec == Init /\ [][Next]_vars

\* The CLI client with its two conversation operations also called directly,
\* and a remote side that sends nothing.
NextCalls ==
  \/ NextLocal
  \/ CallStartConversation
  \/ CallStopConversation

SpecCalls == Init /\ [][NextCalls]_vars

-----------------------------------------------------------------------------
(* The browser client, src/src/main.js.  The page stays alive whatever     *)
(* init() does; pc = "failed" is init() having ended in one of its two     *)
(* catch blocks.                                                           *)

\* The disabled attributes of the two buttons come from the page's markup,
\* which is not part of the sources: either value is possible at load.
InitBrowser ==
  /\ InitShared
  /\ variant = "main.js"
  /\ startBtnDisabled \in BOOLEAN
  /\ stopBtnDisabled \in BOOLEAN

\* A catch block of init (main.js:71-78): the status line is updated and
\* nothing else is done.
InitCaught(message) ==
  /\ pc' = "failed"
  /\ out' = <<message>>

BrowserInitFrame ==
  UNCHANGED <<staticVars, exitCode, closedConns, captureVars,
              conversationActive,
              sent, inputs, audioVars, startBtnDisabled,
              stopBtnDisabled>>

\* init() starts and fetches the token from the local server (main.js:13).
BrowserInit ==
  /\ pc = "start"
  /\ pc' = "awaitToken"
  /\ keyRequests' = keyRequests + 1
  /\ event' = "init"
  /\ out' = <<>>
  /\ UNCHANGED <<ephemeralKey, created, peerConnection, dataChannel,
                 connectionState, readyState, iceConnectionState,
                 localDescription, offers,
                 signalingRequests, responseOk, answersApplied, micStream>>
  /\ BrowserInitFrame

\* await fetch(".../session") settles (main.js:13-17).
TokenResponse(result) ==
  /\ pc = "awaitToken"
  /\ event' = "tokenResponse"
  /\ IF result = "ok"
     THEN /\ pc' = "json"
          /\ out' = <<>>
     ELSE InitCaught("Initialization error:")
  /\ UNCHANGED <<keyRequests, ephemeralKey, created, peerConnection,
                 dataChannel, connectionState, readyState, iceConnectionState,
                 localDescription,
                 offers, signalingRequests, responseOk, answersApplied,
                 micStream>>
  /\ BrowserInitFrame

\* The value of tokenData.client_secret.value (main.js:17-18) for a body of
\* the given kind; "reject" is json() rejecting or the property read
\* throwing.
TokenValue(body) ==
  CASE body = "valid" -> "ek"
    [] body = "noValue" -> "undefined"
    [] OTHER -> "reject"

\* await tokenResponse.json() settles; on success the connection and the
\* data channel are created and getUserMedia is called (main.js:17-39).
JsonDone(body) ==
  /\ pc = "json"
  /\ event' = "json"
  /\ IF TokenValue(body) = "reject"
     THEN /\ InitCaught("Initialization error:")
          /\ UNCHANGED <<ephemeralKey, created, peerConnection, dataChannel,
                         connectionState, readyState, iceConnectionState>>
     ELSE /\ ephemeralKey' = TokenValue(body)
          /\ created' = created + 1
          /\ peerConnection' = created + 1
          /\ connectionState' = "new"
          /\ dataChannel' = created + 1
          /\ readyState' = "connecting"
          /\ iceConnectionState' = "new"
          /\ pc' = "getUserMedia"
          /\ out' = <<>>
  /\ UNCHANGED <<keyRequests, localDescription, offers, signalingRequests,
                 responseOk, answersApplied, micStream>>
  /\ BrowserInitFrame

BrowserStepFrame ==
  /\ UNCHANGED <<keyRequests, ephemeralKey, created, peerConnection,
                 dataChannel, connectionState, readyState, iceConnectionState>>
  /\ BrowserInitFrame

\* await getUserMedia settles; on success the track is added and
\* createOffer is called (main.js:39-43).
GetUserMediaDone(ok) ==
  /\ pc = "getUserMedia"
  /\ event' = "getUserMedia"
  /\ IF ok
     THEN /\ micStream' = TRUE
          /\ pc' = "createOffer"
          /\ out' = <<>>
     ELSE /\ InitCaught("Initialization error:")
          /\ UNCHANGED micStream
  /\ UNCHANGED <<localDescription, offers, signalingRequests, responseOk,
                 answersApplied>>
  /\ BrowserStepFrame

\* await peerConnection.createOffer() settles (main.js:43-44).
BrowserCreateOfferDone(ok) ==
  /\ pc = "createOffer"
  /\ event' = "createOffer"
  /\ IF ok
     THEN /\ offers' = offers + 1
          /\ pc' = "setLocal"
          /\ out' = <<>>
     ELSE /\ InitCaught("Initialization error:")
          /\ UNCHANGED offers
  /\ UNCHANGED <<localDescription, signalingRequests, responseOk,
                 answersApplied, micStream>>
  /\ BrowserStepFrame

\* await setLocalDescription(offer) settles; on success the offer is POSTed
\* (main.js:44-58).
BrowserSetLocalDescriptionDone(ok) ==
  /\ pc = "setLocal"
  /\ event' = "setLocalDescription"
  /\ IF ok
     THEN /\ localDescription' = TRUE
          /\ signalingRequests' = signalingRequests + 1
          /\ pc' = "fetch"
          /\ out' = <<>>
     ELSE /\ InitCaught("Initialization error:")
          /\ UNCHANGED <<localDescription, signalingRequests>>
  /\ UNCHANGED <<offers, responseOk, answersApplied, micStream>>
  /\ BrowserStepFrame

\* await fetch(...) of the signaling request settles (main.js:51-66).
BrowserFetchDone(result) ==
  /\ pc = "fetch"
  /\ event' = "fetch"
  /\ IF result = "ok"
     THEN /\ responseOk' = TRUE
          /\ pc' = "text"
          /\ out' = <<>>
     ELSE /\ InitCaught("Connection error:")
          /\ UNCHANGED responseOk
  /\ UNCHANGED <<localDescription, offers, signalingRequests, answersApplied,
                 micStream>>
  /\ BrowserStepFrame

\* await sdpResponse.text() settles; on success setRemoteDescription(answer)
\* is called (main.js:64-68).
BrowserTextDone(ok) ==
  /\ pc = "text"
  /\ event' = "text"
  /\ IF ok
     THEN /\ answersApplied' = answersApplied + 1
          /\ pc' = "setRemote"
          /\ out' = <<>>
     ELSE /\ InitCaught("Connection error:")
          /\ UNCHANGED answersApplied
  /\ UNCHANGED <<localDescription, offers, signalingRequests, responseOk,
                 micStream>>
  /\ BrowserStepFrame

\* await setRemoteDescription(answer) settles (main.js:68-70).
BrowserSetRemoteDescriptionDone(ok) ==
  /\ pc = "setRemote"
  /\ event' = "setRemoteDescription"
  /\ IF ok
     THEN /\ pc' = "ready"
          /\ out' = <<"Connected to OpenAI Realtime API">>
          /\ startBtnDisabled' = FALSE
     ELSE /\ InitCaught("Connection error:")
          /\ UNCHANGED startBtnDisabled
  /\ UNCHANGED <<keyRequests, ephemeralKey, created, peerConnection,
                 dataChannel, connectionState, readyState, iceConnectionState,
                 localDescription,
                 offers, signalingRequests, responseOk, answersApplied,
                 micStream, exitCode, closedConns, captureVars,
                 conversationActive, sent, inputs, audioVars,
                 stopBtnDisabled, staticVars>>

ClickFrame ==
  UNCHANGED <<staticVars, pc, exitCode, negotiationVars, transportVars,
              captureVars, conversationActive, audioVars, micStream>>

\* The click listener of startBtn, main.js:86-104.  A disabled button
\* dispatches no click.
StartClick ==
  /\ ~startBtnDisabled
  /\ inputs < MaxInputs
  /\ inputs' = inputs + 1
  /\ event' = "startBtn.click"
  /\ IF ChannelOpen
     THEN /\ sent' = Append(sent, Directive("response.create"))
          /\ out' = <<LogStarted>>
          /\ startBtnDisabled' = TRUE
          /\ stopBtnDisabled' = FALSE
     ELSE /\ out' = <<>>
          /\ UNCHANGED <<sent, startBtnDisabled, stopBtnDisabled>>
  /\ ClickFrame

\* The click listener of stopBtn, main.js:106-117.
StopClick ==
  /\ ~stopBtnDisabled
  /\ inputs < MaxInputs
  /\ inputs' = inputs + 1
  /\ event' = "stopBtn.click"
  /\ IF ChannelOpen
     THEN /\ sent' = Append(sent, Directive("response.stop"))
          /\ out' = <<LogStopped>>
          /\ startBtnDisabled' = FALSE
          /\ stopBtnDisabled' = TRUE
     ELSE /\ out' = <<>>
          /\ UNCHANGED <<sent, startBtnDisabled, stopBtnDisabled>>
  /\ ClickFrame

\* The connection state changes; main.js registers no listener for it.
BrowserConnectionStateChange(to) ==
  /\ pc = "ready"
  /\ <<connectionState, to>> \in ConnectionTransitions
  /\ to = Aggregate(iceConnectionState)
  /\ connectionState' = to
  /\ event' = "connectionstatechange"
  /\ out' = <<>>
  /\ UNCHANGED <<readyState, iceConnectionState, audioVars>>
  /\ EventFrame

\* The state of the ICE agent changes; no listener either.
BrowserIceConnectionStateChange(to) ==
  /\ pc = "ready"
  /\ connectionState = Aggregate(iceConnectionState)
  /\ <<iceConnectionState, to>> \in IceTransitions
  /\ iceConnectionState' = to
  /\ event' = "iceconnectionstatechange"
  /\ out' = <<>>
  /\ UNCHANGED <<readyState, connectionState, audioVars>>
  /\ EventFrame

\* The 'message' listener of the data channel, main.js:32-36: the message
\* is parsed and shown.  An exception in a listener is reported by the
\* browser and the page stays.
BrowserOnMessage(type) ==
  /\ pc = "ready"
  /\ \E i \in Deliverable(inbox) :
       /\ inbox' = Remove(inbox, i)
       /\ handled' = Append(handled,
            [id |-> inbox[i],
             outcome |-> IF type = NotJson THEN "thrown" ELSE "logged"])
  /\ event' = "message"
  /\ out' = IF type = NotJson THEN <<>> ELSE <<"Received:">>
  /\ UNCHANGED <<connectionState, readyState, iceConnectionState, inbound,
                 played, clock, files, playing>>
  /\ EventFrame

NextBrowser ==
  \/ BrowserInit
  \/ \E result \in FetchResults : TokenResponse(result)
  \/ \E body \in Bodies : JsonDone(body)
  \/ \E ok \in Outcomes : GetUserMediaDone(ok)
  \/ \E ok \in Outcomes : BrowserCreateOfferDone(ok)
  \/ \E ok \in Outcomes : BrowserSetLocalDescriptionDone(ok)
  \/ \E result \in FetchResults : BrowserFetchDone(result)
  \/ \E ok \in Outcomes : BrowserTextDone(ok)
  \/ \E ok \in Outcomes : BrowserSetRemoteDescriptionDone(ok)
  \/ StartClick
  \/ StopClick
  \/ \E to \in {"connecting", "connected", "disconnected", "failed"} :
       BrowserConnectionStateChange(to)
  \/ \E to \in {"checking", "connected", "disconnected", "failed"} :
       BrowserIceConnectionStateChange(to)
  \/ DataChannelOpens
  \/ DataChannelCloses
  \/ RemoteSends
  \/ \E type \in MessageTypes \cup {NotJson} : BrowserOnMessage(type)

SpecBrowser == InitBrowser /\ [][NextBrowser]_vars

-----------------------------------------------------------------------------
(* Properties of the CLI client.                                           *)

C2_EndAlwaysStops ==
  [][(OnLine /\ conversationActive)
       => (~conversationActive' /\ recording' = 0 /\ running' = {})]_vars

C5_StartNotReadyNoEffect ==
  [][/\ (OnLine /\ ~conversationActive
           /\ ~(dataChannel # 0 /\ readyState = "open"))
          => (/\ sent' = sent
              /\ UNCHANGED captureVars
              /\ ~conversationActive'
              /\ out' = <<LogNotReady>>)
     /\ (sent' # sent) => (event' = "line" /\ readyState = "open")]_vars

\* A start was refused: nothing sent, nothing started, the condition logged.
C5_Witness ==
  /\ event = "line"
  /\ out = <<LogNotReady>>
  /\ readyState # "open"
  /\ ~conversationActive
  /\ recording = 0
  /\ sent = <<>>

\* C6: every invocation of stopConversation while the channel is not open
\* writes something to the console.
C6_StopNotReadyReported ==
  [][(OnLine /\ conversationActive /\ ~ChannelOpen) => out' # <<>>]_vars

\* C8: per connection attempt at most one offer, one signaling request and
\* one application of the answer; the request is sent only with the offer
\* created and set as local description, and the answer is applied only
\* after that one request got an ok response.
C8_NegotiationOrder ==
  /\ offers <= 1
  /\ signalingRequests <= 1
  /\ answersApplied <= 1
  /\ localDescription => offers = 1
  /\ signalingRequests = 1 => localDescription
  /\ responseOk => signalingRequests = 1
  /\ answersApplied = 1 => responseOk

\* The answer has been applied and the client is ready.
C8_Witness ==
  /\ pc = "ready"
  /\ offers = 1
  /\ signalingRequests = 1
  /\ answersApplied = 1

\* First and second start directive: positions in sent.
Starts == {i \in DOMAIN sent : sent[i].type = "response.create"}

C10_OneNegotiation ==
  /\ keyRequests <= 1
  /\ signalingRequests <= 1
  /\ created <= 1
  /\ peerConnection \in {0, 1}

\* Enter was pressed twice while the signaling request was in flight.
C10_Witness ==
  /\ pc = "fetch"
  /\ event = "line"
  /\ inputs >= 2
  /\ keyRequests = 1
  /\ signalingRequests = 1
  /\ created = 1

-----------------------------------------------------------------------------
(* Properties of the browser client.                                       *)

\* C7: once setup has failed, the connection and the channel created for the
\* attempt are closed and cleared: none is left referenced.
C7_FailureLeavesNothingWired ==
  pc = "failed" =>
    /\ peerConnection = 0 \/ peerConnection \in closedConns
    /\ dataChannel = 0

-----------------------------------------------------------------------------
(* Credential acquisition.                                                 *)

\* C11: once the credential endpoint has answered with a status other than
\* 200, the error of getEphemeralKey carries that status and the text of the
\* response body exactly, and the attempt is over: no peer connection was
\* created, no signaling request sent, no conversation started.
C11_ErrorCarriesBodyVerbatim ==
  keyResponse.status \notin {0, 200} =>
    /\ lastError.status = keyResponse.status
    /\ lastError.body = Utf8Decode(Flatten(keyResponse.chunks))
    /\ pc = "exited"
    /\ created = 0
    /\ signalingRequests = 0
    /\ sent = <<>>
    /\ ~conversationActive

\* C12: once the credential endpoint has answered 200 with a body that is
\* not JSON, has no client_secret, or has a client_secret without a value,
\* credential acquisition has failed: the attempt is over, no credential was
\* taken from the response and negotiation was not entered.
C12_MalformedBodyFails ==
  (keyResponse.status = 200 /\ keyResponse.kind # "valid") =>
    /\ pc = "exited"
    /\ ephemeralKey = "none"
    /\ created = 0
    /\ signalingRequests = 0

-----------------------------------------------------------------------------
(* Inbound messages.                                                       *)

\* C13: inbound messages are handled one at a time in the order the remote
\* side sent them: the messages handled so far are in send order, and every
\* message that still waits was sent after all of them.
C13_HandledInSendOrder ==
  /\ \A i, j \in DOMAIN handled : i < j => handled[i].id < handled[j].id
  /\ \A i \in DOMAIN handled, j \in DOMAIN inbox : handled[i].id < inbox[j]

\* Two messages were in flight together; the first, an audio chunk, went to
\* the player, and the second has been handled after it.
C13_Witness ==
  /\ Len(handled) >= 2
  /\ handled[1].outcome = "played"
  /\ event = "message"
  /\ played >= 1

\* C14: audio chunks are played one after the other in arrival order: at
\* most one playback is in progress on the output device at any time.
C14_PlaybacksDoNotOverlap == Cardinality(playing) <= 1

\* A step in which the rendering of an audio chunk fails: the listener runs
\* for a chunk whose data cannot be decoded or whose file cannot be written,
\* or the player's callback runs with an error.
RenderFails ==
  \/ \E now \in Times(clock), wrote \in BOOLEAN :
       OnMessage("audio.chunk", "bad", now, wrote)
  \/ \E now \in Times(clock) : OnMessage("audio.chunk", "valid", now, FALSE)
  \/ \E p \in playing : PlaybackDone(p, TRUE)

\* C15: a failure to render a chunk is not fatal and leaves the conversation,
\* the recorder, the data channel and the peer connection as they were; and
\* whatever failed before, a chunk that arrives with good data and can be
\* written is handed to the player.
C15_RenderFailureNonFatal ==
  [][ /\ RenderFails =>
           UNCHANGED <<pc, exitCode, conversationActive, captureVars,
                       peerConnection, dataChannel, transportVars>>
      /\ (\E now \in Times(clock) :
            OnMessage("audio.chunk", "valid", now, TRUE)) =>
           /\ played' = played + 1
           /\ Cardinality(playing') = Cardinality(playing) + 1 ]_vars

\* During an Active conversation the rendering of a chunk failed in the
\* listener and a chunk that arrived after it is with the player.
C15_Witness ==
  /\ \E i, j \in DOMAIN handled :
       /\ i < j
       /\ handled[i].outcome = "failed"
       /\ handled[j].outcome = "played"
  /\ playing # {}
  /\ conversationActive
  /\ recording # 0
  /\ pc = "ready"

-----------------------------------------------------------------------------
(* The recorder stream.                                                    *)

\* C16: when the recorder stream reports an error during an Active
\* conversation, the error handler stops capture (the recorder is stopped
\* and its handle cleared) and ends the conversation.
C16_CaptureErrorEndsConversation ==
  [][(OnRecorderError /\ conversationActive /\ recording # 0) =>
       /\ recording' = 0
       /\ recording \notin running'
       /\ ~conversationActive']_vars

\* C17: while a conversation is Active every frame read from the capture
\* device is forwarded: the 'data' listener hands it to the outbound path,
\* whatever the state of the connection.
C17_FramesForwarded ==
  [][(OnRecorderData /\ conversationActive) => sent' # sent]_vars

-----------------------------------------------------------------------------
(* Messages of a type the client does not act on.                          *)

\* The listener runs for a message whose type is not 'audio.chunk', the one
\* type the client acts on; the message may carry audio data all the same.
UnknownTypeHandled ==
  \E type \in MessageTypes \ {"audio.chunk"}, audio \in AudioData,
     now \in Times(clock), wrote \in BOOLEAN :
    OnMessage(type, audio, now, wrote)

\* C18: a message of a type that is not recognized is logged and otherwise
\* ignored: the process keeps running, peerConnection, dataChannel, recording
\* and conversationActive keep their values, and nothing is written or played.
C18_UnknownTypeTolerated ==
  [][UnknownTypeHandled =>
       /\ out' = <<"Received event:">>
       /\ UNCHANGED <<pc, exitCode, peerConnection, dataChannel, recording,
                      conversationActive, transportVars>>
       /\ UNCHANGED <<played, playing, files>>]_vars

\* A message of another type was handled during an Active conversation and
\* a chunk that arrived after it has been handed to the player.
C18_Witness ==
  /\ \E i, j \in DOMAIN handled :
       /\ i < j
       /\ handled[i].outcome = "logged"
       /\ handled[j].outcome = "played"
  /\ played = 1
  /\ conversationActive
  /\ event = "message"

-----------------------------------------------------------------------------
(* Connectivity.                                                           *)

\* One of the two state listeners of the peer connection runs.
StateListenerRuns ==
  \/ \E to \in {"connecting", "connected", "disconnected", "failed"} :
       OnConnectionStateChange(to)
  \/ \E to \in {"checking", "connected", "disconnected", "failed"} :
       OnIceConnectionStateChange(to)

\* C19: a change of the connection state or of the ICE state is logged and
\* nothing else: no peer connection is created, no credential or signaling
\* request is issued, and dataChannel, recording and conversationActive keep
\* their values.
C19_TransitionsOnlyLogged ==
  [][StateListenerRuns =>
       /\ out' \in {<<"Connection state:">>, <<"ICE connection state:">>}
       /\ UNCHANGED <<created, peerConnection, keyRequests, signalingRequests,
                      dataChannel, recording, running, conversationActive,
                      sent, pc>>]_vars

\* The connection has failed during an Active conversation and the listener
\* has logged it: the one connection is still the current one.
C19_Witness ==
  /\ event = "connectionstatechange"
  /\ connectionState = "failed"
  /\ iceConnectionState = "failed"
  /\ conversationActive
  /\ recording # 0
  /\ created = 1
  /\ peerConnection = 1

-----------------------------------------------------------------------------
(* Shutdown.                                                               *)

\* C20: when a shutdown signal has ended the process, at whatever point it
\* arrived, capture was stopped and the peer connection, if one was created,
\* was closed before the exit.
C20_SignalReleasesAll ==
  (pc = "exited" /\ event \in Signals) =>
    /\ running = {}
    /\ recording = 0
    /\ peerConnection = 0 \/ peerConnection \in closedConns

-----------------------------------------------------------------------------
(* The directives sent by the CLI toggle.                                  *)

\* C21: the directives sent on the control channel alternate, starting with
\* response.create: the odd ones are response.create and the even ones
\* response.stop; and conversationActive is true exactly when the last
\* directive sent was response.create.
C21_DirectivesAlternate ==
  /\ \A i \in DOMAIN sent :
       sent[i].type = IF i % 2 = 1 THEN "response.create"
                                   ELSE "response.stop"
  /\ conversationActive <=>
       (sent # <<>> /\ sent[Len(sent)].type = "response.create")

\* A conversation was started, stopped and started again, then the channel
\* closed and Enter was pressed once more, which sent nothing.
C21_Witness ==
  /\ Len(sent) = 3
  /\ readyState = "closed"
  /\ event = "line"
  /\ out = <<>>
  /\ inputs = 4
  /\ conversationActive

-----------------------------------------------------------------------------
(* The temp files of the audio chunks.                                     *)

\* C22: when the playback of a chunk has ended, with or without an error of
\* the player, the file written for the chunk is no longer in the temp
\* directory.
C22_FileRemovedAfterPlayback ==
  [][\A p \in playing :
       (\E err \in BOOLEAN : PlaybackDone(p, err)) => p.file \notin files']_vars

\* C23: every chunk is played from a file of its own: no two playbacks in
\* progress use the same file name, also when the clock did not advance
\* between the two chunks.
C23_OwnFilePerChunk ==
  \A p, q \in playing : p.chunk # q.chunk => p.file # q.file

-----------------------------------------------------------------------------
(* The recorders of the v0.2.0 variant.                                    *)

\* C24: in the v0.2.0 variant, whenever the conversation is not Active, and
\* once cleanup has run, every recorder that startRecording started has been
\* stopped: the main recorder and the test recorder.
C24_NoRecorderOutlivesConversation ==
  (variant = "v0.2.0"
   /\ (~conversationActive \/ (pc = "exited" /\ exitCode = 0))) =>
    /\ running = {}
    /\ testRunning = {}

=============================================================================
